---- MODULE Spec2Model ----
(***************************************************************************)
(* Lecture processing pipeline of the lecture assistant backend:           *)
(* upload (single-shot and chunked), the background task                   *)
(* process_lecture_transcription, the progress coroutines it schedules,    *)
(* the local decode thread, process crash / restart and the startup        *)
(* recovery scan _recover_incomplete_lectures.                             *)
(*                                                                         *)
(* Strings that the code stores are modelled as tuples of Unicode code     *)
(* points, optional values as tuples of length 0 (None) or 1.              *)
(***************************************************************************)
EXTENDS Integers, Sequences, FiniteSets, TLC

\* ---------------------------------------------------------------- bounds
\* number of uploads (fresh lecture / upload ids) that are ever made
MaxLectures == 1
\* number of process crashes explored
MaxCrashes == 2
\* number of segments one local decode emits at most
MaxSegments == 2

\* ------------------------------------------------------- optional values
None == <<>>

Some(v) == <<v>>

IsNone(o) == o = <<>>

Get(o) == o[1]

\* ------------------------------------------------------------- strings
\* s contains sub as a contiguous substring
Contains(s, sub) ==
    \E i \in 1..(Len(s) - Len(sub) + 1) : SubSeq(s, i, i + Len(sub) - 1) = sub

\* "timeout"
StrTimeout == <<116,105,109,101,111,117,116>>

\* "path"
StrPath == <<112,97,116,104>>

\* error_msg of the asyncio.TimeoutError handler (Russian text, 92 code points)
TimeoutErrorMsg ==
    <<1055,1088,1077,1074,1099,1096,1077,1085,1086,32,1074,1088,1077,1084,
      1103,32,1086,1078,1080,1076,1072,1085,1080,1103,32,1090,1088,1072,1085,
      1089,1082,1088,1080,1073,1072,1094,1080,1080,32,40,51,32,1095,1072,1089,
      1072,41,46,32,1060,1072,1081,1083,32,1089,1083,1080,1096,1082,1086,1084,
      32,1073,1086,1083,1100,1096,1086,1081,32,1080,1083,1080,32,1089,1077,
      1088,1074,1077,1088,32,1087,1077,1088,1077,1075,1088,1091,1078,1077,
      1085,46>>

\* "Audio file path missing"
AudioPathMissingMsg ==
    <<65,117,100,105,111,32,102,105,108,101,32,112,97,116,104,32,109,105,115,
      115,105,110,103>>

\* "Audio file not found: "
AudioNotFoundPrefix ==
    <<65,117,100,105,111,32,102,105,108,101,32,110,111,116,32,102,111,117,110,
      100,58,32>>

\* str(settings.audio_dir / f"{lecture_id}{file_ext}") = "data/audio/<id>.mp3"
AudioPath(l) ==
    <<100,97,116,97,47,97,117,100,105,111,47>> \o <<48 + l>> \o <<46,109,112,51>>

\* f"Audio file not found: {audio_path}"
AudioNotFoundMsg(path) == AudioNotFoundPrefix \o path

\* str(e) of the exceptions the transcription may raise: "CUDA"
ExcMsgs == { <<67,85,68,65>> }

\* ------------------------------------------------------------ identifiers
\* id of a lecture row that is in the database before the first start
LegacyId == 0

LectureIds == 0..MaxLectures

\* ---------------------------------------------------------------- state
VARIABLES
    db,             \* lectures table: id -> None | Some(row)            (durable)
    audioFile,      \* id -> the audio file data/audio/<id>.mp3 exists   (durable)
    transcriptFile, \* id -> transcripts/<id>.json exists                (durable)
    collection,     \* id -> the lecture's vector collection exists      (durable)
    uploadDir,      \* id -> "none" | "empty" | "chunks" (data/uploads/<id>)
    nextId,         \* next fresh uuid4
    crashes,        \* process crashes so far
    phase,          \* "down" | "startup" (lifespan before yield) | "serving"
    recovery,       \* the _recover_incomplete_lectures coroutine
    runs,           \* id -> sequence of process_lecture_transcription tasks
    modelLock,      \* ASRService._model_lock: None | Some(<<id, run>>)
    pending,        \* id -> scheduled update_progress coroutines, <<n, progress>> for
                    \* the n-th on_progress call of the lecture's task
    completers      \* id -> the complete_upload requests in flight

durable == <<db, audioFile, transcriptFile, collection, uploadDir, nextId, crashes>>

volatile == <<phase, recovery, runs, modelLock, pending, completers>>

\* state of the requests and services that the pipeline's own steps leave alone
VARIABLES
    deleteReply,    \* id -> status codes of the DELETE requests that have ended
    calls,          \* ASRService.transcribe calls, one per caller
    chroma,         \* collection name -> None | Some(the set of entries of the collection)
    returned,       \* what the last VectorStore call gave back
    whisper,        \* ASRService._model: is it set, and how many WhisperModel were built
    tasks,          \* the coroutines calling EmbeddingService and VectorStore
    vsLock,         \* VectorStore._lock: holder and waiters, first come first served
    embLock,        \* EmbeddingService._model_lock, likewise
    embModel        \* EmbeddingService._model: is it set, and how many were built

services == <<tasks, vsLock, embLock, embModel>>

aside == <<deleteReply, calls, chroma, returned, whisper, services>>

vars == <<db, audioFile, transcriptFile, collection, uploadDir, nextId, crashes,
          phase, recovery, runs, modelLock, pending, completers,
          deleteReply, calls, chroma, returned,
          whisper, tasks, vsLock, embLock, embModel>>

\* ------------------------------------------------------ the lectures table
\* Lecture(...) as built by LecturesRepository.create; column defaults of db_models
NewLecture(audio_path) ==
    [ status              |-> "pending",
      error               |-> None,
      processing_progress |-> None,
      has_transcript      |-> FALSE,
      audio_path          |-> audio_path ]

Exists(d, l) == ~IsNone(d[l])

Row(d, l) == Get(d[l])

\* LecturesRepository.update / StorageService.update_lecture_metadata:
\* a missing row is silently skipped, otherwise the given columns are set
Update(d, l, updates) ==
    IF ~Exists(d, l) THEN d
    ELSE [d EXCEPT ![l] =
            Some([k \in DOMAIN Row(d, l) |->
                    IF k \in DOMAIN updates THEN updates[k] ELSE Row(d, l)[k]])]

\* LecturesRepository.update_status / StorageService.update_lecture_status
UpdateStatus(d, l, status) == Update(d, l, [status |-> status])

\* mutant of IncompleteSet: failed lectures are picked up for a retry as well
IncompleteSetWithFailed(d) ==
    { l \in LectureIds :
        Exists(d, l) /\ Row(d, l).status \in {"pending", "processing", "failed"} }

\* StorageService.get_incomplete_lectures: WHERE status IN (pending, processing)
IncompleteSet(d) ==
    { l \in LectureIds : Exists(d, l) /\ Row(d, l).status \in {"pending", "processing"} }

\* the orders in which the unordered SELECT may return a set of rows
Orderings(S) ==
    { s \in [1..Cardinality(S) -> S] : \A i, j \in 1..Cardinality(S) : s[i] = s[j] => i = j }

\* ------------------------------------------------------------- progress
\* length in seconds that mutagen reports for an uploaded audio file
TotalDur == 2

\* _get_audio_duration_sec: the length, or None (unreadable file), written 0
Durations == {0, TotalDur}

\* segment.end values the engine may report (they may exceed the length)
SegmentEnds == 1..(TotalDur + 1)

\* thousandths, as stored by update_progress: round(min(1.0, end / total), 3)
Progress(end, total) ==
    IF end >= total THEN 1000 ELSE (2 * 1000 * end + total) \div (2 * total)

\* ------------------------------------------------- background task state
\* a process_lecture_transcription task that has been scheduled and not yet run
NewRun ==
    [ pc      |-> "start",   \* position in process_lecture_transcription
      total   |-> 0,         \* total_duration
      th      |-> "none",    \* the executor thread running _transcribe_sync
      emitted |-> 0,         \* segments that thread has produced
      exc     |-> None,      \* str(e) of the exception caught at line 297
      saved   |-> FALSE,     \* this task wrote the transcript file
      indexed |-> FALSE,     \* this task called vector_store.index_lecture
      outcome |-> "none" ]   \* how the task ended

Run(l, k) == runs[l][k]

SetRun(l, k, r) == [runs EXCEPT ![l][k] = r]

\* mutant of Spawn: the task is scheduled twice
SpawnTwice(rs, l) == [rs EXCEPT ![l] = Append(Append(@, NewRun), NewRun)]

\* BackgroundTasks.add_task / asyncio.create_task
Spawn(rs, l) == [rs EXCEPT ![l] = Append(@, NewRun)]

\* tasks that have not returned or raised
Active(l) == { k \in 1..Len(runs[l]) : runs[l][k].pc \notin {"done", "raised"} }

Up == phase # "down"

\* `async with self._model_lock` is left: the lock is released if this task holds it
Release(l, k) == IF modelLock = Some(<<l, k>>) THEN None ELSE modelLock

\* ------------------------------------- process_lecture_transcription
\* lines 258-274: probe the duration, then write status = processing; the
\* write sits in try/finally without except, so a database error leaves the task
RunStart(l, k) ==
    /\ Up
    /\ Run(l, k).pc = "start"
    /\ \/ \E T \in Durations :
            /\ db' = UpdateStatus(db, l, "processing")
            /\ runs' = SetRun(l, k, [Run(l, k) EXCEPT !.pc = "asr", !.total = T])
       \/ /\ runs' = SetRun(l, k, [Run(l, k) EXCEPT !.pc = "raised"])
          /\ UNCHANGED db
    /\ UNCHANGED <<audioFile, transcriptFile, collection, uploadDir, nextId, crashes,
                   phase, recovery, modelLock, pending, completers>>
    /\ UNCHANGED aside

\* ASRService.transcribe lines 59-77: the remote worker is healthy and returns
\* the result; progress_callback(1.0) when a callback and a duration are given
RemoteTranscribe(l, k) ==
    /\ Up
    /\ Run(l, k).pc = "asr"
    /\ runs' = SetRun(l, k, [Run(l, k) EXCEPT !.pc = "save"])
    /\ pending' = IF Run(l, k).total > 0
                    THEN [pending EXCEPT ![l] = @ \cup {<<Run(l, k).emitted + 1, 1000>>}]
                    ELSE pending
    /\ UNCHANGED <<durable, phase, recovery, modelLock, completers>>
    /\ UNCHANGED aside

\* ASRService.transcribe lines 59-88: no remote worker, an unhealthy one, or a
\* remote error: fall through to the local path, which waits for _model_lock
RemoteFallback(l, k) ==
    /\ Up
    /\ Run(l, k).pc = "asr"
    /\ runs' = SetRun(l, k, [Run(l, k) EXCEPT !.pc = "lockwait"])
    /\ UNCHANGED <<durable, phase, recovery, modelLock, pending, completers>>
    /\ UNCHANGED aside

\* ASRService.transcribe lines 88-97: take the free _model_lock, start
\* _transcribe_sync in the executor
LockAcquire(l, k) ==
    /\ Up
    /\ Run(l, k).pc = "lockwait"
    /\ IsNone(modelLock)
    /\ modelLock' = Some(<<l, k>>)
    /\ runs' = SetRun(l, k, [Run(l, k) EXCEPT !.pc = "decode", !.th = "running"])
    /\ UNCHANGED <<durable, phase, recovery, pending, completers>>
    /\ UNCHANGED aside

\* _transcribe_sync lines 126-137: one more segment; with a callback and a
\* positive duration on_progress schedules update_progress(min(1, end/total))
ThreadEmit(l, k) ==
    /\ Up
    /\ Run(l, k).th = "running"
    /\ Run(l, k).emitted < MaxSegments
    /\ \E end \in SegmentEnds :
          pending' = IF Run(l, k).total > 0
                       THEN [pending EXCEPT ![l] =
                               @ \cup {<<Run(l, k).emitted + 1, Progress(end, Run(l, k).total)>>}]
                       ELSE pending
    /\ runs' = SetRun(l, k, [Run(l, k) EXCEPT !.emitted = @ + 1])
    /\ UNCHANGED <<durable, phase, recovery, modelLock, completers>>
    /\ UNCHANGED aside

\* _transcribe_sync returns; the awaiting task (if it still waits) gets the
\* result and leaves the lock
ThreadReturn(l, k) ==
    /\ Up
    /\ Run(l, k).th = "running"
    /\ IF Run(l, k).pc = "decode"
         THEN /\ runs' = SetRun(l, k, [Run(l, k) EXCEPT !.th = "finished", !.pc = "save"])
              /\ modelLock' = Release(l, k)
         ELSE /\ runs' = SetRun(l, k, [Run(l, k) EXCEPT !.th = "finished"])
              /\ UNCHANGED modelLock
    /\ UNCHANGED <<durable, phase, recovery, pending, completers>>
    /\ UNCHANGED aside

\* _transcribe_sync raises (model load, unreadable audio, ...): the exception
\* reaches `except Exception` at line 297 when the task still waits
ThreadRaise(l, k) ==
    /\ Up
    /\ Run(l, k).th = "running"
    /\ Run(l, k).pc = "decode"
    /\ \E msg \in ExcMsgs :
          runs' = SetRun(l, k, [Run(l, k) EXCEPT !.th = "finished", !.pc = "failing",
                                                 !.exc = Some(msg), !.outcome = "exception"])
    /\ modelLock' = Release(l, k)
    /\ UNCHANGED <<durable, phase, recovery, pending, completers>>
    /\ UNCHANGED aside

\* asyncio.wait_for lines 280-289: the ceiling passes, the awaiting coroutine
\* is cancelled (leaving the lock); a running executor thread is not stopped
Timeout(l, k) ==
    /\ Up
    /\ Run(l, k).pc \in {"asr", "lockwait", "decode"}
    /\ runs' = SetRun(l, k, [Run(l, k) EXCEPT !.pc = "failing", !.outcome = "timeout"])
    /\ modelLock' = Release(l, k)
    /\ UNCHANGED <<durable, phase, recovery, pending, completers>>
    /\ UNCHANGED aside

\* mutant of ErrorOf: the timeout lands in the generic handler, which stores
\* str(e), the empty string for asyncio.TimeoutError
ErrorOfStr(r) == IF IsNone(r.exc) THEN <<>> ELSE Get(r.exc)

\* mutant of ErrorOf: both handlers store the fixed timeout message
ErrorOfFixed(r) == TimeoutErrorMsg

\* the message each handler stores: error_msg (line 290) or str(e) (line 301)
ErrorOf(r) == IF r.outcome = "timeout" THEN TimeoutErrorMsg ELSE Get(r.exc)

\* lines 294 and 300: update_status(lecture_id, "failed")
FailStatusWrite(l, k) ==
    /\ Up
    /\ Run(l, k).pc = "failing"
    /\ db' = UpdateStatus(db, l, "failed")
    /\ runs' = SetRun(l, k, [Run(l, k) EXCEPT !.pc = "failing2"])
    /\ UNCHANGED <<audioFile, transcriptFile, collection, uploadDir, nextId, crashes,
                   phase, recovery, modelLock, pending, completers>>
    /\ UNCHANGED aside

\* lines 295-296 and 301-302: update(lecture_id, {"error": ...}); return
FailErrorWrite(l, k) ==
    /\ Up
    /\ Run(l, k).pc = "failing2"
    /\ db' = Update(db, l, [error |-> Some(ErrorOf(Run(l, k)))])
    /\ runs' = SetRun(l, k, [Run(l, k) EXCEPT !.pc = "done"])
    /\ UNCHANGED <<audioFile, transcriptFile, collection, uploadDir, nextId, crashes,
                   phase, recovery, modelLock, pending, completers>>
    /\ UNCHANGED aside

\* mutant of SaveTranscriptFile: an error of the file write is swallowed and
\* the task goes on
SaveTranscriptFileSwallow(l, k) ==
    /\ Up
    /\ Run(l, k).pc = "save"
    /\ \E made \in BOOLEAN :
          transcriptFile' = [transcriptFile EXCEPT ![l] = @ \/ made]
    /\ runs' = SetRun(l, k, [Run(l, k) EXCEPT !.pc = "save2", !.saved = TRUE])
    /\ UNCHANGED <<db, audioFile, collection, uploadDir, nextId, crashes,
                   phase, recovery, modelLock, pending, completers>>
    /\ UNCHANGED aside

\* StorageService.save_transcript lines 215-217: write transcripts/<id>.json.
\* An OSError leaves the task; open(path, "w") may already have made the file
SaveTranscriptFile(l, k) ==
    /\ Up
    /\ Run(l, k).pc = "save"
    /\ \/ /\ transcriptFile' = [transcriptFile EXCEPT ![l] = TRUE]
          /\ runs' = SetRun(l, k, [Run(l, k) EXCEPT !.pc = "save2", !.saved = TRUE])
       \/ /\ \E made \in BOOLEAN :
               transcriptFile' = [transcriptFile EXCEPT ![l] = @ \/ made]
          /\ runs' = SetRun(l, k, [Run(l, k) EXCEPT !.pc = "raised"])
    /\ UNCHANGED <<db, audioFile, collection, uploadDir, nextId, crashes,
                   phase, recovery, modelLock, pending, completers>>
    /\ UNCHANGED aside

\* StorageService.save_transcript line 218: has_transcript = True
SaveTranscriptFlag(l, k) ==
    /\ Up
    /\ Run(l, k).pc = "save2"
    /\ \/ /\ db' = Update(db, l, [has_transcript |-> TRUE])
          /\ runs' = SetRun(l, k, [Run(l, k) EXCEPT !.pc = "complete"])
       \/ /\ runs' = SetRun(l, k, [Run(l, k) EXCEPT !.pc = "raised"])
          /\ UNCHANGED db
    /\ UNCHANGED <<audioFile, transcriptFile, collection, uploadDir, nextId, crashes,
                   phase, recovery, modelLock, pending, completers>>
    /\ UNCHANGED aside

\* the columns of the completion write, lines 306-316
CompletionUpdates ==
    [ status |-> "completed", processing_progress |-> None, has_transcript |-> TRUE ]

\* lines 306-316: the completion write
CompleteWrite(l, k) ==
    /\ Up
    /\ Run(l, k).pc = "complete"
    /\ \/ /\ db' = Update(db, l, CompletionUpdates)
          /\ runs' = SetRun(l, k, [Run(l, k) EXCEPT !.pc = "index"])
       \/ /\ runs' = SetRun(l, k, [Run(l, k) EXCEPT !.pc = "raised"])
          /\ UNCHANGED db
    /\ UNCHANGED <<audioFile, transcriptFile, collection, uploadDir, nextId, crashes,
                   phase, recovery, modelLock, pending, completers>>
    /\ UNCHANGED aside

\* mutant of IndexLecture: a failure of index_lecture is handled like a failure
\* of the transcription and marks the lecture failed
IndexLectureReverting(l, k) ==
    /\ Up
    /\ Run(l, k).pc = "index"
    /\ db' = UpdateStatus(db, l, "failed")
    /\ runs' = SetRun(l, k, [Run(l, k) EXCEPT !.pc = "raised", !.indexed = TRUE,
                                              !.outcome = "completed"])
    /\ UNCHANGED <<audioFile, transcriptFile, collection, uploadDir, nextId, crashes,
                   phase, recovery, modelLock, pending, completers>>
    /\ UNCHANGED aside

\* line 317: vector_store.index_lecture(lecture_id, result["segments"]); it makes
\* the collection when the transcript yields chunks, and its exceptions
\* (embedding, vector database) are not caught
IndexLecture(l, k) ==
    /\ Up
    /\ Run(l, k).pc = "index"
    /\ \/ /\ \E chunks \in BOOLEAN :
               collection' = [collection EXCEPT ![l] = @ \/ chunks]
          /\ runs' = SetRun(l, k, [Run(l, k) EXCEPT !.pc = "done", !.indexed = TRUE,
                                                    !.outcome = "completed"])
       \/ /\ runs' = SetRun(l, k, [Run(l, k) EXCEPT !.pc = "raised", !.indexed = TRUE,
                                                    !.outcome = "completed"])
          /\ UNCHANGED collection
    /\ UNCHANGED <<db, audioFile, transcriptFile, uploadDir, nextId, crashes,
                   phase, recovery, modelLock, pending, completers>>
    /\ UNCHANGED aside

\* update_progress lines 261-265: one scheduled coroutine writes its value
ApplyProgress(l) ==
    /\ Up
    /\ \E e \in pending[l] :
          /\ db' = Update(db, l, [processing_progress |-> Some(e[2])])
          /\ pending' = [pending EXCEPT ![l] = @ \ {e}]
    /\ UNCHANGED <<audioFile, transcriptFile, collection, uploadDir, nextId, crashes,
                   phase, recovery, runs, modelLock, completers>>
    /\ UNCHANGED aside

\* --------------------------------------------------------- crash, restart
NoRecovery == [pc |-> "idle", incomplete |-> <<>>, i |-> 0]

NoCompleters == [merge |-> 0, cleanup |-> 0, create |-> 0]

\* the process dies: tasks, threads, locks and requests are gone, the database
\* and the files stay
Crash ==
    /\ Up
    /\ crashes < MaxCrashes
    /\ crashes' = crashes + 1
    /\ phase' = "down"
    /\ recovery' = NoRecovery
    /\ runs' = [l \in LectureIds |-> <<>>]
    /\ modelLock' = None
    /\ pending' = [l \in LectureIds |-> {}]
    /\ completers' = [l \in LectureIds |-> NoCompleters]
    /\ UNCHANGED <<db, audioFile, transcriptFile, collection, uploadDir, nextId>>
    /\ UNCHANGED aside

\* an audio file is removed from data/audio while the server is down
AudioLost(l) ==
    /\ phase = "down"
    /\ audioFile[l]
    /\ audioFile' = [audioFile EXCEPT ![l] = FALSE]
    /\ UNCHANGED <<db, transcriptFile, collection, uploadDir, nextId, crashes, volatile>>
    /\ UNCHANGED aside

\* the process starts: lifespan runs _recover_incomplete_lectures before yield
Restart ==
    /\ phase = "down"
    /\ phase' = "startup"
    /\ recovery' = [NoRecovery EXCEPT !.pc = "scan"]
    /\ UNCHANGED <<durable, runs, modelLock, pending, completers>>
    /\ UNCHANGED aside

\* ------------------------------------------ _recover_incomplete_lectures
\* lines 60-67: read the incomplete lectures; with none, return (lifespan yields)
RecoverScan ==
    /\ phase = "startup"
    /\ recovery.pc = "scan"
    /\ \E order \in Orderings(IncompleteSet(db)) :
          IF order = <<>>
            THEN /\ recovery' = [recovery EXCEPT !.pc = "done"]
                 /\ phase' = "serving"
            ELSE /\ recovery' = [pc |-> "loop", incomplete |-> order, i |-> 1]
                 /\ UNCHANGED phase
    /\ UNCHANGED <<durable, runs, modelLock, pending, completers>>
    /\ UNCHANGED aside

\* the lecture of the current loop iteration
Current == recovery.incomplete[recovery.i]

\* mutant of AudioMissing: only the recorded path is looked at, not the file
AudioMissingPathOnly(l) == IsNone(Row(db, l).audio_path)

\* lines 74 and 86: `not audio_path` or `not Path(audio_path).exists()`
AudioMissing(l) == IsNone(Row(db, l).audio_path) \/ ~audioFile[l]

\* lines 79 and 91: the error stored for a lecture without audio
MissingError(l) ==
    IF IsNone(Row(db, l).audio_path)
      THEN AudioPathMissingMsg
      ELSE AudioNotFoundMsg(Get(Row(db, l).audio_path))

\* the for loop goes on to the next lecture, or ends and lifespan yields
Advance ==
    IF recovery.i = Len(recovery.incomplete)
      THEN /\ recovery' = [recovery EXCEPT !.pc = "done"]
           /\ phase' = "serving"
      ELSE /\ recovery' = [recovery EXCEPT !.pc = "loop", !.i = @ + 1]
           /\ UNCHANGED phase

\* an exception leaves the loop; lifespan (lines 45-48) logs it and yields
Abort ==
    /\ recovery' = [recovery EXCEPT !.pc = "aborted"]
    /\ phase' = "serving"

\* lines 74-76 and 86-88: the audio is missing, write status = failed
RecoverMarkFailed ==
    /\ phase = "startup"
    /\ recovery.pc = "loop"
    /\ AudioMissing(Current)
    /\ \/ /\ db' = UpdateStatus(db, Current, "failed")
          /\ recovery' = [recovery EXCEPT !.pc = "mark"]
          /\ UNCHANGED phase
       \/ /\ Abort
          /\ UNCHANGED db
    /\ UNCHANGED <<audioFile, transcriptFile, collection, uploadDir, nextId, crashes,
                   runs, modelLock, pending, completers>>
    /\ UNCHANGED aside

\* lines 77-82 and 89-94: write the error, continue with the next lecture
RecoverMarkError ==
    /\ phase = "startup"
    /\ recovery.pc = "mark"
    /\ \/ /\ db' = Update(db, Current, [error |-> Some(MissingError(Current))])
          /\ Advance
       \/ /\ Abort
          /\ UNCHANGED db
    /\ UNCHANGED <<audioFile, transcriptFile, collection, uploadDir, nextId, crashes,
                   runs, modelLock, pending, completers>>
    /\ UNCHANGED aside

\* lines 96-102: the audio is there, create the task that processes the lecture
RecoverSpawn ==
    /\ phase = "startup"
    /\ recovery.pc = "loop"
    /\ ~AudioMissing(Current)
    /\ runs' = Spawn(runs, Current)
    /\ Advance
    /\ UNCHANGED <<durable, modelLock, pending, completers>>
    /\ UNCHANGED aside

\* ---------------------------------------------------------------- upload
\* upload_lecture lines 192-245 with an allowed extension: store the audio under
\* a fresh id, create the row (status pending), add the background task
UploadLecture ==
    /\ phase = "serving"
    /\ nextId <= MaxLectures
    /\ audioFile' = [audioFile EXCEPT ![nextId] = TRUE]
    /\ db' = [db EXCEPT ![nextId] = Some(NewLecture(Some(AudioPath(nextId))))]
    /\ runs' = Spawn(runs, nextId)
    /\ nextId' = nextId + 1
    /\ UNCHANGED <<transcriptFile, collection, uploadDir, crashes,
                   phase, recovery, modelLock, pending, completers>>
    /\ UNCHANGED aside

\* init_upload lines 62-65: a fresh upload id and its directory
InitUpload ==
    /\ phase = "serving"
    /\ nextId <= MaxLectures
    /\ uploadDir' = [uploadDir EXCEPT ![nextId] = "empty"]
    /\ nextId' = nextId + 1
    /\ UNCHANGED <<db, audioFile, transcriptFile, collection, crashes, volatile>>
    /\ UNCHANGED aside

\* upload_chunk lines 76-87: a chunk file is stored in an existing directory
UploadChunk(u) ==
    /\ phase = "serving"
    /\ uploadDir[u] = "empty"
    /\ uploadDir' = [uploadDir EXCEPT ![u] = "chunks"]
    /\ UNCHANGED <<db, audioFile, transcriptFile, collection, nextId, crashes, volatile>>
    /\ UNCHANGED aside

\* complete_upload requests that may be in flight for one upload id
MaxCompleters == 2

InFlight(u) == completers[u].merge + completers[u].cleanup + completers[u].create

Move(u, from, to) ==
    [completers EXCEPT ![u] = [@ EXCEPT ![from] = @ - 1, ![to] = @ + 1]]

Leave(u, from) == [completers EXCEPT ![u] = [@ EXCEPT ![from] = @ - 1]]

\* complete_upload lines 103-129: the directory exists; without chunks it is
\* removed (400), with chunks the request goes on to merge them
CompleteBegin(u) ==
    /\ phase = "serving"
    /\ InFlight(u) < MaxCompleters
    /\ uploadDir[u] # "none"
    /\ IF uploadDir[u] = "empty"
         THEN /\ uploadDir' = [uploadDir EXCEPT ![u] = "none"]
              /\ UNCHANGED completers
         ELSE /\ completers' = [completers EXCEPT ![u] = [@ EXCEPT !.merge = @ + 1]]
              /\ UNCHANGED uploadDir
    /\ UNCHANGED <<db, audioFile, transcriptFile, collection, nextId, crashes,
                   phase, recovery, runs, modelLock, pending>>
    /\ UNCHANGED aside

\* lines 132-139: open the final audio file for writing (it exists from now
\* on) and copy the chunks. When the directory has been removed meanwhile, a
\* chunk that is not open yet cannot be opened (500)
CompleteMerge(u) ==
    /\ phase = "serving"
    /\ completers[u].merge > 0
    /\ audioFile' = [audioFile EXCEPT ![u] = TRUE]
    /\ \/ completers' = Move(u, "merge", "cleanup")
       \/ /\ uploadDir[u] = "none"
          /\ completers' = Leave(u, "merge")
    /\ UNCHANGED <<db, transcriptFile, collection, uploadDir, nextId, crashes,
                   phase, recovery, runs, modelLock, pending>>
    /\ UNCHANGED aside

\* line 142: shutil.rmtree(upload_path) raises when the directory is gone (500)
CompleteCleanup(u) ==
    /\ phase = "serving"
    /\ completers[u].cleanup > 0
    /\ IF uploadDir[u] = "none"
         THEN /\ completers' = Leave(u, "cleanup")
              /\ UNCHANGED uploadDir
         ELSE /\ completers' = Move(u, "cleanup", "create")
              /\ uploadDir' = [uploadDir EXCEPT ![u] = "none"]
    /\ UNCHANGED <<db, audioFile, transcriptFile, collection, nextId, crashes,
                   phase, recovery, runs, modelLock, pending>>
    /\ UNCHANGED aside

\* lines 155-177 without background_tasks.add_task
CompleteCreateNoTask(u) ==
    /\ phase = "serving"
    /\ completers[u].create > 0
    /\ completers' = Leave(u, "create")
    /\ IF Exists(db, u)
         THEN UNCHANGED <<db, runs>>
         ELSE /\ db' = [db EXCEPT ![u] = Some(NewLecture(Some(AudioPath(u))))]
              /\ UNCHANGED runs
    /\ UNCHANGED <<audioFile, transcriptFile, collection, uploadDir, nextId, crashes,
                   phase, recovery, modelLock, pending>>
    /\ UNCHANGED aside

\* lines 155-177: create the row with id = upload_id (the primary key rejects
\* an id that is taken), add the background task, respond with status pending
CompleteCreate(u) ==
    /\ phase = "serving"
    /\ completers[u].create > 0
    /\ completers' = Leave(u, "create")
    /\ IF Exists(db, u)
         THEN UNCHANGED <<db, runs>>
         ELSE /\ db' = [db EXCEPT ![u] = Some(NewLecture(Some(AudioPath(u))))]
              /\ runs' = Spawn(runs, u)
    /\ UNCHANGED <<audioFile, transcriptFile, collection, uploadDir, nextId, crashes,
                   phase, recovery, modelLock, pending>>
    /\ UNCHANGED aside

\* ---------------------------------------------------------------- delete
\* DELETE /{lecture_id}, lectures.py lines 549-567: no row gives 404, another
\* user's row 403. lectures_repo.delete marks the row deleted in the request's
\* session (autoflush is off, nothing reaches the database); the next line
\* calls storage_service.delete_lecture_files, which StorageService does not
\* have: AttributeError, get_db rolls the session back, the reply is 500.
\* vector_store.delete_lecture and db.commit are never reached.
DeleteLecture(l) ==
    /\ phase = "serving"
    /\ \E owner \in BOOLEAN :
          deleteReply' = [deleteReply EXCEPT ![l] =
                            IF ~Exists(db, l) THEN "404"
                            ELSE IF ~owner THEN "403"
                            ELSE "500"]
    /\ UNCHANGED <<durable, volatile, calls, chroma, returned, whisper, services>>

\* ------------------------------------------------- ASRService.transcribe
\* The transcribe calls of several callers in one process, step by step: the
\* remote worker first (when configured), then the local decode under
\* _model_lock. Here modelLock holds Some(caller).
MaxCallers == 2

Callers == 1..MaxCallers

NewCall ==
    [ pc          |-> "idle",   \* idle, probe, remote, lockwait, decode, returned, raised, cancelled
      probe       |-> "none",   \* what check_health met
      tries       |-> 0,        \* remote_client.transcribe calls made
      remoteError |-> "none",   \* what remote_client.transcribe raised
      result      |-> "none",   \* whose result was returned: remote, local
      exc         |-> "none",   \* where the exception that left transcribe came from
      thread      |-> "none" ]  \* the executor thread of _transcribe_sync: none, started,
                                \* loading, running, finished

\* RemoteASRClient.check_health lines 25-39: True only for 200 with
\* status == "healthy"; another status code, another body or any exception
\* gives False
ProbeOutcomes == {"healthy", "unhealthy", "non200", "raises"}

\* RemoteASRClient.transcribe lines 58-117: a result, or an exception for a
\* missing audio file, a status code other than 200, a body with
\* status == "error", or an aiohttp.ClientError
RemoteOutcomes == {"ok", "missing_file", "non200", "status_error", "network"}

asrOther == <<durable, phase, recovery, runs, pending, completers, deleteReply, chroma,
              returned, services>>

asrRest == <<asrOther, whisper>>

\* transcribe lines 58-61, 87-88: with whisper_use_remote and a worker url the
\* call probes the worker, otherwise it goes to the local path
TranscribeBegin(c) ==
    /\ calls[c].pc = "idle"
    /\ \E remote \in BOOLEAN :
          calls' = [calls EXCEPT ![c].pc = IF remote THEN "probe" ELSE "lockwait"]
    /\ UNCHANGED <<modelLock, asrRest>>

\* lines 62-65, 81-84: is_available = await remote_client.check_health()
CheckHealth(c) ==
    /\ calls[c].pc = "probe"
    /\ \E o \in ProbeOutcomes :
          calls' = [calls EXCEPT ![c].probe = o,
                                 ![c].pc = IF o = "healthy" THEN "remote" ELSE "lockwait"]
    /\ UNCHANGED <<modelLock, asrRest>>

\* lines 67-80 with a failure of the worker re-raised instead of caught
RemoteSubmitPropagating(c) ==
    /\ calls[c].pc = "remote"
    /\ \E o \in RemoteOutcomes :
          calls' = [calls EXCEPT ![c].tries = @ + 1,
                                 ![c].remoteError = IF o = "ok" THEN "none" ELSE o,
                                 ![c].result = IF o = "ok" THEN "remote" ELSE "none",
                                 ![c].exc = IF o = "ok" THEN "none" ELSE "remote",
                                 ![c].pc = IF o = "ok" THEN "returned" ELSE "raised"]
    /\ UNCHANGED <<modelLock, asrRest>>

\* lines 67-80: result = await remote_client.transcribe(...); return result,
\* or `except Exception`: log and fall through to the local path
RemoteSubmit(c) ==
    /\ calls[c].pc = "remote"
    /\ \E o \in RemoteOutcomes :
          calls' = [calls EXCEPT ![c].tries = @ + 1,
                                 ![c].remoteError = IF o = "ok" THEN "none" ELSE o,
                                 ![c].result = IF o = "ok" THEN "remote" ELSE "none",
                                 ![c].pc = IF o = "ok" THEN "returned" ELSE "lockwait"]
    /\ UNCHANGED <<modelLock, asrRest>>

\* lines 88-97: async with self._model_lock, then run_in_executor starts
\* _transcribe_sync in a thread of the default executor
ModelLockAcquire(c) ==
    /\ calls[c].pc = "lockwait"
    /\ IsNone(modelLock)
    /\ modelLock' = Some(c)
    /\ calls' = [calls EXCEPT ![c].pc = "decode", ![c].thread = "started"]
    /\ UNCHANGED asrRest

\* ASRService.model lines 23-26, read by _transcribe_sync at line 113:
\* `if self._model is None` in the executor thread
WhisperCheck(c) ==
    /\ calls[c].thread = "started"
    /\ calls' = [calls EXCEPT ![c].thread = IF whisper.set THEN "running" ELSE "loading"]
    /\ UNCHANGED <<modelLock, asrRest>>

\* ASRService.model lines 29-35: WhisperModel(...) has been built and is
\* assigned to self._model
WhisperLoaded(c) ==
    /\ calls[c].thread = "loading"
    /\ whisper' = [set |-> TRUE, instances |-> whisper.instances + 1]
    /\ calls' = [calls EXCEPT ![c].thread = "running"]
    /\ UNCHANGED <<modelLock, asrOther>>

\* _transcribe_sync returns: a caller that still awaits gets the result and
\* leaves the lock (line 98)
TranscribeSyncReturn(c) ==
    /\ calls[c].thread = "running"
    /\ IF calls[c].pc = "decode"
         THEN /\ calls' = [calls EXCEPT ![c].thread = "finished", ![c].pc = "returned",
                                        ![c].result = "local"]
              /\ modelLock' = None
         ELSE /\ calls' = [calls EXCEPT ![c].thread = "finished"]
              /\ UNCHANGED modelLock
    /\ UNCHANGED asrRest

\* _transcribe_sync raises: a caller that still awaits gets the exception
TranscribeSyncRaise(c) ==
    /\ calls[c].thread = "running"
    /\ IF calls[c].pc = "decode"
         THEN /\ calls' = [calls EXCEPT ![c].thread = "finished", ![c].pc = "raised",
                                        ![c].exc = "local"]
              /\ modelLock' = None
         ELSE /\ calls' = [calls EXCEPT ![c].thread = "finished"]
              /\ UNCHANGED modelLock
    /\ UNCHANGED asrRest

\* asyncio.wait_for (lectures.py lines 280-288) times out and cancels the
\* awaiting call: CancelledError leaves `async with self._model_lock`, which
\* releases the lock; the executor thread is not stopped
WaitForCancel(c) ==
    /\ calls[c].pc \in {"probe", "remote", "lockwait", "decode"}
    /\ calls' = [calls EXCEPT ![c].pc = "cancelled"]
    /\ modelLock' = IF modelLock = Some(c) THEN None ELSE modelLock
    /\ UNCHANGED asrRest

AsrNext ==
    \/ \E c \in Callers : TranscribeBegin(c)
    \/ \E c \in Callers : CheckHealth(c)
    \/ \E c \in Callers : RemoteSubmit(c)
    \/ \E c \in Callers : ModelLockAcquire(c)
    \/ \E c \in Callers : WhisperCheck(c)
    \/ \E c \in Callers : WhisperLoaded(c)
    \/ \E c \in Callers : TranscribeSyncReturn(c)
    \/ \E c \in Callers : TranscribeSyncRaise(c)
    \/ \E c \in Callers : WaitForCancel(c)

\* ------------------------------------------------------------ VectorStore
\* Lecture ids as strings (tuples of code points): "a-b", "a_b" and "c"
VsIds == { <<97, 45, 98>>, <<97, 95, 98>>, <<99>> }

\* "lecture_"
StrLecture == <<108, 101, 99, 116, 117, 114, 101, 95>>

\* "_chunk_"
StrChunk == <<95, 99, 104, 117, 110, 107, 95>>

\* VectorStore._collection_name: f"lecture_{lecture_id.replace('-', '_')}"
CollectionName(lecture_id) ==
    StrLecture \o [i \in 1..Len(lecture_id) |->
                     IF lecture_id[i] = 45 THEN 95 ELSE lecture_id[i]]

CollectionNames == { CollectionName(id) : id \in VsIds }

\* index_lecture line 75: f"{lecture_id}_chunk_{i}", i < 10
ChunkId(lecture_id, i) == lecture_id \o StrChunk \o <<48 + i>>

\* settings.chunk_size and settings.chunk_overlap, in words
chunk_size == 400

chunk_overlap == 50

\* A segment text is [lead] spaces, then [words] words separated by single
\* spaces, then [trail] spaces
Text(lead, words, trail) == [lead |-> lead, words |-> words, trail |-> trail]

\* str.strip() leaving the text as it is
StripNothing(text) == text

\* str.strip()
Strip(text) == Text(0, text.words, 0)

\* the empty string (falsy)
IsEmptyText(text) == text.lead + text.words + text.trail = 0

\* ChunkerService._count_words: re.findall(r'\b\w+\b', text)
CountWords(text) == text.words

\* segments a transcript may hold
SegmentTexts == { Text(1, 0, 1), Text(0, 400, 1) }

\* longest transcript, in segments
MaxSegs == 2

\* an ASR segment {start, end, text}
Segment(text, start, end) == [text |-> text, start |-> start, end |-> end]

\* the segments with the given texts, segment i lasting from i - 1 to i
Timed(texts) == [i \in 1..Len(texts) |-> Segment(texts[i], i - 1, i)]

SegmentLists ==
    { Timed(texts) : texts \in UNION { [1..n -> SegmentTexts] : n \in 0..MaxSegs } }

RECURSIVE SumWords(_, _)
\* chunk_segments lines 65-68: the words of the segments with the indices idx
SumWords(idx, segments) ==
    IF idx = <<>> THEN 0
    ELSE CountWords(segments[Head(idx)].text) + SumWords(Tail(idx), segments)

\* _create_chunk taking both times from the first segment of the chunk
CreateChunkFirstOnly(cur, segments) ==
    [ text            |-> Text(0, SumWords(cur, segments), 0),
      start_time      |-> segments[cur[1]].start,
      end_time        |-> segments[cur[1]].end,
      segment_indices |-> cur ]

\* _create_chunk: the stripped texts joined by single spaces, the start of the
\* first and the end of the last segment of the chunk, and the indices
CreateChunk(cur, segments) ==
    [ text            |-> Text(0, SumWords(cur, segments), 0),
      start_time      |-> segments[cur[1]].start,
      end_time        |-> segments[cur[Len(cur)]].end,
      segment_indices |-> cur ]

RECURSIVE OverlapFrom(_, _, _, _)
\* _get_overlap_segments lines 119-125: walk back from segment j of cur while
\* the words fit in chunk_overlap
OverlapFrom(cur, segments, j, words) ==
    IF j = 0 THEN <<>>
    ELSE LET w == CountWords(Strip(segments[cur[j]].text))
         IN  IF words + w <= chunk_overlap
               THEN Append(OverlapFrom(cur, segments, j - 1, words + w), cur[j])
               ELSE <<>>

\* _get_overlap_segments returning no segment
GetOverlapNone(cur, segments) == <<>>

\* ChunkerService._get_overlap_segments
GetOverlapSegments(cur, segments) == OverlapFrom(cur, segments, Len(cur), 0)

RECURSIVE ChunkLoop(_, _, _, _, _)
\* chunk_segments lines 47-81: the loop over the segments from segment i on,
\* with the chunks made so far, the indices of the current chunk and its words
ChunkLoop(segments, i, chunks, cur, count) ==
    IF i > Len(segments)
      THEN IF cur # <<>> THEN Append(chunks, CreateChunk(cur, segments)) ELSE chunks
      ELSE LET segment_text == Strip(segments[i].text)
               w == CountWords(segment_text)
               full == count + w > chunk_size /\ cur # <<>>
               kept == IF full THEN GetOverlapSegments(cur, segments) ELSE cur
           IN  IF IsEmptyText(segment_text)
                 THEN ChunkLoop(segments, i + 1, chunks, cur, count)
                 ELSE ChunkLoop(segments, i + 1,
                                IF full THEN Append(chunks, CreateChunk(cur, segments))
                                        ELSE chunks,
                                Append(kept, i),
                                (IF full THEN SumWords(kept, segments) ELSE count) + w)

\* ChunkerService.chunk_segments
ChunkSegments(segments) ==
    IF segments = <<>> THEN <<>> ELSE ChunkLoop(segments, 1, <<>>, <<>>, 0)

\* distances of a chunk's embedding to the query embedding, in 1/10000
Distances == {10000, 13992, 14008}

\* search line 145: score = 1 - (distance / 2), in 1/10000
Score(distance) == 10000 - distance \div 2

\* round(score, 3) of a score in 1/10000 that is not half-way
Round3(score) == ((score + 5) \div 10) * 10

\* min_score arguments, in 1/10000: the default of search
MinScores == {3000}

\* largest top_k / top_k_per_lecture argument
MaxTopK == 2

\* longest lecture_ids argument of search_all_lectures
MaxProbe == 2

\* lecture_ids arguments: the ids of rows of the lectures table (chat_global.py
\* lines 27-31), each at most once
IdLists ==
    { ids \in UNION { [1..n -> VsIds] : n \in 0..MaxProbe } :
        \A i, j \in 1..Len(ids) : i # j => ids[i] # ids[j] }

\* the set of entries of a collection, None when get_collection raises ValueError
\* (the collection does not exist)
GetCollection(name) == chroma[name]

\* collection.add: entries whose id the collection already holds are ignored
AddEntries(entries, new) ==
    entries \cup { e \in new : \A x \in entries : x.id # e.id }

\* collection.query(n_results = k): the k nearest entries (fewer when the
\* collection is smaller), nearest first, ties in any order
QueryResults(entries, k) ==
    LET n == Cardinality(entries)
        m == IF k < n THEN k ELSE n
    IN  { r \in [1..m -> entries] :
            /\ \A i, j \in 1..m : i < j =>
                   /\ r[i] # r[j]
                   /\ r[i].distance <= r[j].distance
            /\ \A x \in entries :
                   (\A i \in 1..m : r[i] # x)
                     => \A i \in 1..m : r[i].distance <= x.distance }

\* search line 147 with the test left out
QualifiesAlways(score, min_score) == TRUE

\* search line 147 / search_all_lectures line 192: if score >= min_score
Qualifies(score, min_score) == score >= min_score

\* search lines 139-153: the chunks built from a query result r. A chunk's id
\* stands for its text, start_time and end_time.
Hits(entries, r, min_score) ==
    LET Keep(e) == Qualifies(Score(e.distance), min_score)
        kept == SelectSeq(r, Keep)
    IN  [i \in 1..Len(kept) |->
           [ id    |-> kept[i].id,
             score |-> Round3(Score(kept[i].distance)) ]]

RECURSIVE SortInto(_, _)
\* list.sort(key = score, reverse = True): stable, highest score first
SortInto(acc, rest) ==
    IF rest = <<>> THEN acc
    ELSE LET c == Head(rest)
             Before(x) == x.score >= c.score
             After(x) == x.score < c.score
         IN  SortInto(SelectSeq(acc, Before) \o <<c>> \o SelectSeq(acc, After), Tail(rest))

SortByScore(chunks) == SortInto(<<>>, chunks)

\* what a VectorStore call was given and what it gave back
NoReturn ==
    [ op          |-> "none",
      lecture_id  |-> <<>>,
      lecture_ids |-> <<>>,
      blank       |-> FALSE,     \* the query is empty or whitespace
      segments    |-> <<>>,
      top_k       |-> 0,
      min_score   |-> 0,
      chunks      |-> <<>>,      \* search, chunk_segments
      found       |-> <<>>,      \* search_all_lectures
      count       |-> 0,         \* index_lecture, get_lecture_chunk_count
      distances   |-> <<>>,      \* index_lecture: of the embeddings it made, to the query
      deleted     |-> FALSE,     \* delete_lecture
      status_code |-> 0,         \* upload_lecture, complete_upload: HTTPException raised
      total_duration |-> <<>>,   \* _transcribe_sync
      progress    |-> <<>>,      \* the values _transcribe_sync gave its callback
      raised      |-> FALSE ]

vsRest == <<durable, volatile, deleteReply, calls, whisper, services>>

\* most entries the vector database holds, over all collections
MaxEntries == 3

\* the entries over all collections
Stored(store) ==
    UNION { IF IsNone(store[name]) THEN {} ELSE Get(store[name]) : name \in CollectionNames }

\* index_lecture lines 57-95. No chunks: return 0. Otherwise embed the texts
\* (embed_documents may raise, before any collection is touched), get or
\* create the collection, add one entry per chunk, return len(chunks).
VsIndexLecture(lecture_id, segments) ==
    LET chunks == ChunkSegments(segments)
        name == CollectionName(lecture_id)
        old == IF IsNone(GetCollection(name)) THEN {} ELSE Get(GetCollection(name))
        call == [NoReturn EXCEPT !.op = "index", !.lecture_id = lecture_id,
                                 !.segments = segments]
    IN  /\ \/ /\ chunks = <<>>
              /\ returned' = call
              /\ UNCHANGED chroma
           \/ /\ chunks # <<>>
              /\ returned' = [call EXCEPT !.raised = TRUE]
              /\ UNCHANGED chroma
           \/ /\ chunks # <<>>
              /\ \E distance \in [1..Len(chunks) -> Distances] :
                    /\ returned' = [call EXCEPT !.count = Len(chunks),
                                                !.distances = distance]
                    /\ chroma' = [chroma EXCEPT ![name] =
                                 Some(AddEntries(old,
                                   { [ id         |-> ChunkId(lecture_id, i - 1),
                                       lecture_id |-> lecture_id,
                                       distance   |-> distance[i] ] :
                                     i \in 1..Len(chunks) }))]
              /\ Cardinality(Stored(chroma')) <= MaxEntries
        /\ UNCHANGED vsRest

\* search lines 116-158
VsSearch(lecture_id, top_k, min_score) ==
    LET name == CollectionName(lecture_id)
        call == [NoReturn EXCEPT !.op = "search", !.lecture_id = lecture_id,
                                 !.top_k = top_k, !.min_score = min_score]
    IN  /\ IF IsNone(GetCollection(name))
             THEN returned' = call
             ELSE \E r \in QueryResults(Get(GetCollection(name)), top_k) :
                     returned' = [call EXCEPT !.chunks =
                        SortByScore(Hits(Get(GetCollection(name)), r, min_score))]
        /\ UNCHANGED <<chroma, vsRest>>

\* search_all_lectures line 199 with the test left out
KeepEntryAlways(chunks) == TRUE

\* search_all_lectures line 199: if chunks
KeepEntry(chunks) == chunks # <<>>

RECURSIVE ProbeAll(_, _, _)
\* search_all_lectures lines 175-200: every list the loop may build
ProbeAll(lecture_ids, top_k, min_score) ==
    IF lecture_ids = <<>> THEN { <<>> }
    ELSE LET rest == ProbeAll(Tail(lecture_ids), top_k, min_score)
             c == GetCollection(CollectionName(Head(lecture_ids)))
         IN  IF IsNone(c) THEN rest
             ELSE UNION {
                    LET chunks == Hits(Get(c), r, min_score)
                    IN  IF KeepEntry(chunks)
                          THEN { <<[lecture_id |-> Head(lecture_ids), chunks |-> chunks]>> \o t :
                                   t \in rest }
                          ELSE rest
                    : r \in QueryResults(Get(c), top_k) }

\* search_all_lectures lines 170-201
VsSearchAllLectures(lecture_ids, blank, top_k, min_score) ==
    LET call == [NoReturn EXCEPT !.op = "search_all", !.lecture_ids = lecture_ids,
                                 !.blank = blank, !.top_k = top_k,
                                 !.min_score = min_score]
    IN  /\ IF lecture_ids = <<>> \/ blank
             THEN returned' = call
             ELSE \E found \in ProbeAll(lecture_ids, top_k, min_score) :
                     returned' = [call EXCEPT !.found = found]
        /\ UNCHANGED <<chroma, vsRest>>

\* delete_lecture lines 213-220 with the collection created when it is missing
VsDeleteLectureCreating(lecture_id) ==
    LET name == CollectionName(lecture_id)
        call == [NoReturn EXCEPT !.op = "delete", !.lecture_id = lecture_id]
    IN  /\ IF IsNone(GetCollection(name))
             THEN /\ returned' = call
                  /\ chroma' = [chroma EXCEPT ![name] = Some({})]
             ELSE /\ returned' = [call EXCEPT !.deleted = TRUE]
                  /\ chroma' = [chroma EXCEPT ![name] = None]
        /\ UNCHANGED vsRest

\* delete_lecture lines 213-220: delete_collection, False on ValueError
VsDeleteLecture(lecture_id) ==
    LET name == CollectionName(lecture_id)
        call == [NoReturn EXCEPT !.op = "delete", !.lecture_id = lecture_id]
    IN  /\ IF IsNone(GetCollection(name))
             THEN /\ returned' = call
                  /\ UNCHANGED chroma
             ELSE /\ returned' = [call EXCEPT !.deleted = TRUE]
                  /\ chroma' = [chroma EXCEPT ![name] = None]
        /\ UNCHANGED vsRest

\* get_lecture_chunk_count lines 224-231: collection.count(), 0 on ValueError
VsGetLectureChunkCount(lecture_id) ==
    LET c == GetCollection(CollectionName(lecture_id))
    IN  /\ returned' = [NoReturn EXCEPT !.op = "count", !.lecture_id = lecture_id,
                                        !.count = IF IsNone(c) THEN 0 ELSE Cardinality(Get(c))]
        /\ UNCHANGED <<chroma, vsRest>>

\* ------------------------------------------------------- ChunkerService
\* segment texts given to chunk_segments: spaces only, and 10, 30, 390, 395
\* and 450 words
ChunkTexts ==
    { Text(1, 0, 1), Text(0, 10, 0), Text(1, 30, 0), Text(0, 390, 1), Text(0, 395, 0),
      Text(0, 450, 0) }

\* longest segment list given to chunk_segments
MaxChunkSegs == 4

ChunkInputs ==
    { Timed(texts) : texts \in UNION { [1..n -> ChunkTexts] : n \in 0..MaxChunkSegs } }

\* chunker_service.chunk_segments(segments) is called and returns (the function
\* keeps no state: one call per behaviour)
ChunkSegmentsCall(segments) ==
    /\ returned = NoReturn
    /\ returned' = [NoReturn EXCEPT !.op = "chunk", !.segments = segments,
                                    !.chunks = ChunkSegments(segments)]
    /\ UNCHANGED <<chroma, vsRest>>

ChunkNext == \E segments \in ChunkInputs : ChunkSegmentsCall(segments)

\* ------------------------------------------------------ rejected uploads
\* upload_lecture lines 190-196: the extension of file.filename is not an
\* allowed one (400), before anything is written
UploadRejected ==
    /\ phase = "serving"
    /\ returned' = [NoReturn EXCEPT !.op = "upload_lecture", !.raised = TRUE,
                                    !.status_code = 400]
    /\ UNCHANGED <<chroma, vsRest>>

\* complete_upload lines 103-124: the upload directory does not exist (404), or
\* it holds chunks and the file name has an extension that is not allowed
\* (400). Neither touches the directory.
CompleteRejected(u) ==
    /\ phase = "serving"
    /\ uploadDir[u] \in {"none", "chunks"}
    /\ returned' = [NoReturn EXCEPT !.op = "complete_upload", !.count = u,
                                    !.raised = TRUE,
                                    !.status_code = IF uploadDir[u] = "none" THEN 404 ELSE 400]
    /\ UNCHANGED <<chroma, vsRest>>

\* the upload requests, from the end of the startup scan on, and the start of
\* the tasks they schedule
UploadNext ==
    \/ RecoverScan
    \/ \E l \in LectureIds : \E k \in 1..Len(runs[l]) : RunStart(l, k)
    \/ UploadLecture
    \/ UploadRejected
    \/ InitUpload
    \/ \E u \in LectureIds : UploadChunk(u)
    \/ \E u \in LectureIds : CompleteRejected(u)
    \/ \E u \in LectureIds : CompleteBegin(u)
    \/ \E u \in LectureIds : CompleteMerge(u)
    \/ \E u \in LectureIds : CompleteCleanup(u)
    \/ \E u \in LectureIds : CompleteCreate(u)

\* ------------------------------------------- ASRService._transcribe_sync
\* latest time stamp of a segment the engine emits
MaxTime == 3

\* most segments the engine emits
MaxEmitted == 3

\* the segment texts do not matter to the progress
Spoken == Text(0, 10, 0)

\* what the engine may emit: segments that end no earlier than they start and
\* start no earlier than the one before
EngineOutputs ==
    { segs \in UNION { [1..n -> { Segment(Spoken, t[1], t[2]) :
                                     t \in { u \in (0..MaxTime) \X (0..MaxTime) : u[1] <= u[2] } }] :
                         n \in 0..MaxEmitted } :
        \A i \in 1..(Len(segs) - 1) : segs[i].start <= segs[i + 1].start }

\* total_duration arguments: absent, 0, and 2
TotalDurations == { None, Some(0), Some(2) }

\* _transcribe_sync line 133: min(1.0, segment.end / total_duration), in
\* thousandths
CallbackValue(end, total) ==
    IF 1000 * end >= 1000 * total THEN 1000 ELSE (1000 * end) \div total

\* _transcribe_sync lines 126-137: the values given to progress_callback, one
\* per segment when total_duration is there and positive (transcribe is given
\* a callback exactly when total_duration is truthy, lectures.py line 285)
Reported(segments, total_duration) ==
    IF IsNone(total_duration) \/ Get(total_duration) <= 0
      THEN <<>>
      ELSE [i \in 1..Len(segments) |-> CallbackValue(segments[i].end, Get(total_duration))]

\* one local run of _transcribe_sync over what the engine emits
TranscribeSyncCall(segments, total_duration) ==
    /\ returned = NoReturn
    /\ returned' = [NoReturn EXCEPT !.op = "transcribe_sync", !.segments = segments,
                                    !.total_duration = total_duration,
                                    !.progress = Reported(segments, total_duration)]
    /\ UNCHANGED <<chroma, vsRest>>

ProgressNext ==
    \E segments \in EngineOutputs : \E total_duration \in TotalDurations :
        TranscribeSyncCall(segments, total_duration)

VsNext ==
    \/ \E id \in VsIds : \E segments \in SegmentLists : VsIndexLecture(id, segments)
    \/ \E id \in VsIds : \E k \in 1..MaxTopK : \E m \in MinScores : VsSearch(id, k, m)
    \/ \E ids \in IdLists : \E blank \in BOOLEAN : \E k \in 1..MaxTopK : \E m \in MinScores :
          VsSearchAllLectures(ids, blank, k, m)
    \/ \E id \in VsIds : VsDeleteLecture(id)
    \/ \E id \in VsIds : VsGetLectureChunkCount(id)

\* ------------------------------------------- EmbeddingService and the locks
\* The coroutines of one event loop that call EmbeddingService and
\* VectorStore, step by step. Each does one call.
MaxTasks == 3

Tasks == 1..MaxTasks

\* the coroutines that call EmbeddingService directly
MaxEmbedders == 2

Embedders == 1..MaxEmbedders

\* A document is the number of its words; 0 is the empty string
Docs == {0, 1}

MaxDocs == 3

DocLists == UNION { [1..n -> Docs] : n \in 0..MaxDocs }

MaxBatch == 2

BatchSizes == 1..MaxBatch

\* SentenceTransformer.encode on one text: the vector of that text
Embedding(doc) == 100 + doc

NewTask ==
    [ op     |-> "none",   \* embed_documents, embed_query, index_lecture, search,
                           \* search_all_lectures, delete_lecture, get_lecture_chunk_count
      pc     |-> "idle",   \* idle, embed, emb_wait, emb_thread, vs_acquire, vs_wait,
                           \* vs_held, vs_call, done
      docs   |-> <<>>,     \* documents of embed_documents
      bs     |-> 0,        \* batch_size
      i      |-> 0,        \* the loop variable of embed_documents
      out    |-> <<>>,     \* all_embeddings
      thread |-> "none" ]  \* the executor thread of _embed_sync: none, started,
                           \* loading, encoding

\* asyncio.Lock: unlocked without waiters
FreeLock == [holder |-> None, waiters |-> <<>>]

\* asyncio.Lock.acquire: taken at once when unlocked and nobody waits,
\* otherwise the caller joins the end of the waiters
Acquired(lock, t) ==
    IF IsNone(lock.holder) /\ lock.waiters = <<>>
      THEN [lock EXCEPT !.holder = Some(t)]
      ELSE [lock EXCEPT !.waiters = Append(@, t)]

\* asyncio.Lock.release keeping the lock locked
ReleasedNever(lock) == lock

\* asyncio.Lock.release: the first waiter is woken and is the next holder
Released(lock) ==
    IF lock.waiters = <<>>
      THEN [lock EXCEPT !.holder = None]
      ELSE [holder |-> Some(Head(lock.waiters)), waiters |-> Tail(lock.waiters)]

embRest == <<durable, volatile, deleteReply, calls, chroma, returned, whisper>>

\* documents[0:batch_size] whatever i is
BatchFirst(docs, i, bs) == SubSeq(docs, 1, IF bs < Len(docs) THEN bs ELSE Len(docs))

\* embed_documents line 114: batch = documents[i:i + batch_size]
Batch(docs, i, bs) == SubSeq(docs, i + 1, IF i + bs < Len(docs) THEN i + bs ELSE Len(docs))

\* embed_documents lines 108-113: no documents gives []; otherwise the loop
\* starts at i = 0
EmbedDocumentsBegin(t, docs, bs) ==
    /\ tasks[t].pc = "idle"
    /\ tasks' = [tasks EXCEPT ![t] = [NewTask EXCEPT !.op = "embed_documents",
                                                     !.docs = docs,
                                                     !.bs = bs,
                                                     !.pc = IF docs = <<>> THEN "done"
                                                                           ELSE "embed"]]
    /\ UNCHANGED <<vsLock, embLock, embModel, embRest>>

\* embed_query line 90: embeddings = await self.embed([query])
EmbedQueryBegin(t, query) ==
    /\ tasks[t].pc = "idle"
    /\ tasks' = [tasks EXCEPT ![t] = [NewTask EXCEPT !.op = "embed_query",
                                                     !.docs = <<query>>,
                                                     !.bs = 1,
                                                     !.pc = "embed"]]
    /\ UNCHANGED <<vsLock, embLock, embModel, embRest>>

\* embed line 55: async with self._model_lock; lines 56-62 start _embed_sync
\* in a thread of the default executor once the lock is held
EmbedAcquire(t) ==
    /\ tasks[t].pc = "embed"
    /\ embLock' = Acquired(embLock, t)
    /\ tasks' = [tasks EXCEPT ![t].pc = IF embLock'.holder = Some(t) THEN "emb_thread"
                                                                      ELSE "emb_wait",
                              ![t].thread = IF embLock'.holder = Some(t) THEN "started"
                                                                          ELSE "none"]
    /\ UNCHANGED <<vsLock, embModel, embRest>>

\* embed line 55: the waiter that release woke goes on with the lock held
EmbedResume(t) ==
    /\ tasks[t].pc = "emb_wait"
    /\ embLock.holder = Some(t)
    /\ tasks' = [tasks EXCEPT ![t].pc = "emb_thread", ![t].thread = "started"]
    /\ UNCHANGED <<vsLock, embLock, embModel, embRest>>

\* EmbeddingService.model line 23, read by _embed_sync at line 71:
\* `if self._model is None` in the executor thread
EmbModelCheck(t) ==
    /\ tasks[t].thread = "started"
    /\ tasks' = [tasks EXCEPT ![t].thread = IF embModel.set THEN "encoding" ELSE "loading"]
    /\ UNCHANGED <<vsLock, embLock, embModel, embRest>>

\* EmbeddingService.model lines 24-26: SentenceTransformer(...) has been
\* built and is assigned to self._model
EmbModelLoaded(t) ==
    /\ tasks[t].thread = "loading"
    /\ embModel' = [set |-> TRUE, instances |-> embModel.instances + 1]
    /\ tasks' = [tasks EXCEPT ![t].thread = "encoding"]
    /\ UNCHANGED <<vsLock, embLock, embRest>>

\* embedding_dimension lines 30-32: self.model read on the event loop, under
\* no lock
ReadDimension ==
    /\ ~embModel.set
    /\ embModel' = [set |-> TRUE, instances |-> embModel.instances + 1]
    /\ UNCHANGED <<tasks, vsLock, embLock, embRest>>

\* where a coroutine goes on once its embeddings are there: the caller of
\* embed_documents or embed_query returns, index_lecture (line 69) and search
\* (line 129) call the vector database, search_all_lectures (line 174) takes
\* the index lock
AfterEmbed(op) ==
    CASE op \in {"embed_documents", "embed_query"} -> "done"
      [] op \in {"index_lecture", "search"} -> "vs_call"
      [] op = "search_all_lectures" -> "vs_acquire"

\* _embed_sync lines 71-78 returns one vector per text of the batch; embed
\* line 63 returns them and leaves the lock; embed_documents lines 113-118
\* extends all_embeddings and goes to the next batch or returns
EmbedReturn(t) ==
    /\ tasks[t].pc = "emb_thread"
    /\ tasks[t].thread = "encoding"
    /\ LET task == tasks[t]
           batch == Batch(task.docs, task.i, task.bs)
           next == task.i + task.bs
       IN  tasks' = [tasks EXCEPT ![t].out = @ \o [j \in 1..Len(batch) |-> Embedding(batch[j])],
                                  ![t].i = next,
                                  ![t].thread = "none",
                                  ![t].pc = IF next < Len(task.docs) THEN "embed"
                                                                     ELSE AfterEmbed(task.op)]
    /\ embLock' = Released(embLock)
    /\ UNCHANGED <<vsLock, embModel, embRest>>

EmbNext ==
    \/ \E t \in Embedders : \E docs \in DocLists : \E bs \in BatchSizes :
          EmbedDocumentsBegin(t, docs, bs)
    \/ \E t \in Embedders : \E query \in Docs : EmbedQueryBegin(t, query)
    \/ \E t \in Tasks : EmbedAcquire(t)
    \/ \E t \in Tasks : EmbedResume(t)
    \/ \E t \in Tasks : EmbModelCheck(t)
    \/ \E t \in Tasks : EmbModelLoaded(t)
    \/ \E t \in Tasks : EmbedReturn(t)
    \/ ReadDimension

\* The VectorStore calls as users of the two locks. What they read and write
\* in the vector database is in the VectorStore section; here a call is its
\* awaits, and every action is at most one turn of the event loop.
VsOps == {"index_lecture", "search", "search_all_lectures", "delete_lecture",
          "get_lecture_chunk_count"}

\* the texts of n chunks
ChunkDocs(n) == [j \in 1..n |-> 1]

\* index_lecture, search, delete_lecture, get_lecture_chunk_count (lines 57,
\* 116, 213, 224) begin with `async with self._lock`; search_all_lectures
\* lines 170-173 returns [] for no ids or a blank query and otherwise embeds
\* the query first. index_lecture will embed the texts of its n chunks in
\* batches of the default size (line 66), search its query (line 126).
VsBegin(t, op, n, blank) ==
    /\ tasks[t].pc = "idle"
    /\ tasks' = [tasks EXCEPT ![t] =
          [NewTask EXCEPT !.op = op,
                          !.docs = IF op = "index_lecture" THEN ChunkDocs(n) ELSE <<1>>,
                          !.bs = IF op = "index_lecture" THEN MaxBatch ELSE 1,
                          !.pc = IF op = "search_all_lectures"
                                   THEN IF blank THEN "done" ELSE "embed"
                                   ELSE "vs_acquire"]]
    /\ UNCHANGED <<vsLock, embLock, embModel, embRest>>

\* async with self._lock (lines 57, 116, 174, 213, 224)
VsAcquire(t) ==
    /\ tasks[t].pc = "vs_acquire"
    /\ vsLock' = Acquired(vsLock, t)
    /\ tasks' = [tasks EXCEPT ![t].pc = IF vsLock'.holder = Some(t) THEN "vs_held"
                                                                     ELSE "vs_wait"]
    /\ UNCHANGED <<embLock, embModel, embRest>>

\* the waiter that release woke goes on with the index lock held
VsResume(t) ==
    /\ tasks[t].pc = "vs_wait"
    /\ vsLock.holder = Some(t)
    /\ tasks' = [tasks EXCEPT ![t].pc = "vs_held"]
    /\ UNCHANGED <<vsLock, embLock, embModel, embRest>>

\* with the index lock held: delete_lecture (lines 214-220),
\* get_lecture_chunk_count (225-231) and search_all_lectures (175-201) call
\* the vector database and leave; index_lecture returns 0 for no chunks
\* (lines 61-62) and search [] for a missing collection (119-123), otherwise
\* both go on to embed, keeping the lock
VsHeld(t) ==
    /\ tasks[t].pc = "vs_held"
    /\ \E missing \in BOOLEAN :
          LET task == tasks[t]
              leaves == \/ task.op \in {"delete_lecture", "get_lecture_chunk_count",
                                        "search_all_lectures"}
                        \/ task.op = "index_lecture" /\ task.docs = <<>>
                        \/ task.op = "search" /\ missing
          IN  /\ tasks' = [tasks EXCEPT ![t].pc = IF leaves THEN "done" ELSE "embed"]
              /\ vsLock' = IF leaves THEN Released(vsLock) ELSE vsLock
    /\ UNCHANGED <<embLock, embModel, embRest>>

\* index_lecture lines 69-96 (get_or_create_collection, add) and search lines
\* 129-158 (query) with the embeddings at hand, then the lock is left
VsCall(t) ==
    /\ tasks[t].pc = "vs_call"
    /\ tasks' = [tasks EXCEPT ![t].pc = "done"]
    /\ vsLock' = Released(vsLock)
    /\ UNCHANGED <<embLock, embModel, embRest>>

LockNext ==
    \/ \E t \in Tasks : \E op \in VsOps : \E n \in 0..MaxDocs : \E blank \in BOOLEAN :
          VsBegin(t, op, n, blank)
    \/ \E t \in Tasks : VsAcquire(t)
    \/ \E t \in Tasks : VsResume(t)
    \/ \E t \in Tasks : VsHeld(t)
    \/ \E t \in Tasks : VsCall(t)
    \/ \E t \in Tasks : EmbedAcquire(t)
    \/ \E t \in Tasks : EmbedResume(t)
    \/ \E t \in Tasks : EmbModelCheck(t)
    \/ \E t \in Tasks : EmbModelLoaded(t)
    \/ \E t \in Tasks : EmbedReturn(t)

\* what a call that has begun does next: the event loop runs every coroutine
\* that is ready, and the embedding and vector database calls return
TaskStep(t) ==
    \/ VsAcquire(t)
    \/ VsResume(t)
    \/ VsHeld(t)
    \/ VsCall(t)
    \/ EmbedAcquire(t)
    \/ EmbedResume(t)
    \/ EmbModelCheck(t)
    \/ EmbModelLoaded(t)
    \/ EmbedReturn(t)

\* ------------------------------------------------------------------ spec
\* a database that is empty, or holds one lecture row without audio_path (the
\* column is nullable)
Init ==
    /\ \E legacy \in BOOLEAN :
          db = [l \in LectureIds |->
                  IF legacy /\ l = LegacyId THEN Some(NewLecture(None)) ELSE None]
    /\ nextId = 1
    /\ audioFile = [l \in LectureIds |-> FALSE]
    /\ transcriptFile = [l \in LectureIds |-> FALSE]
    /\ collection = [l \in LectureIds |-> FALSE]
    /\ uploadDir = [l \in LectureIds |-> "none"]
    /\ crashes = 0
    /\ phase = "startup"
    /\ recovery = [NoRecovery EXCEPT !.pc = "scan"]
    /\ runs = [l \in LectureIds |-> <<>>]
    /\ modelLock = None
    /\ pending = [l \in LectureIds |-> {}]
    /\ completers = [l \in LectureIds |-> NoCompleters]
    /\ deleteReply = [l \in LectureIds |-> "none"]
    /\ calls = [c \in Callers |-> NewCall]
    /\ chroma = [name \in CollectionNames |-> None]
    /\ returned = NoReturn
    /\ whisper = [set |-> FALSE, instances |-> 0]
    /\ tasks = [t \in Tasks |-> NewTask]
    /\ vsLock = FreeLock
    /\ embLock = FreeLock
    /\ embModel = [set |-> FALSE, instances |-> 0]

Next ==
    \/ \E l \in LectureIds : \E k \in 1..Len(runs[l]) : RunStart(l, k)
    \/ \E l \in LectureIds : \E k \in 1..Len(runs[l]) : RemoteTranscribe(l, k)
    \/ \E l \in LectureIds : \E k \in 1..Len(runs[l]) : RemoteFallback(l, k)
    \/ \E l \in LectureIds : \E k \in 1..Len(runs[l]) : LockAcquire(l, k)
    \/ \E l \in LectureIds : \E k \in 1..Len(runs[l]) : ThreadEmit(l, k)
    \/ \E l \in LectureIds : \E k \in 1..Len(runs[l]) : ThreadReturn(l, k)
    \/ \E l \in LectureIds : \E k \in 1..Len(runs[l]) : ThreadRaise(l, k)
    \/ \E l \in LectureIds : \E k \in 1..Len(runs[l]) : Timeout(l, k)
    \/ \E l \in LectureIds : \E k \in 1..Len(runs[l]) : FailStatusWrite(l, k)
    \/ \E l \in LectureIds : \E k \in 1..Len(runs[l]) : FailErrorWrite(l, k)
    \/ \E l \in LectureIds : \E k \in 1..Len(runs[l]) : SaveTranscriptFile(l, k)
    \/ \E l \in LectureIds : \E k \in 1..Len(runs[l]) : SaveTranscriptFlag(l, k)
    \/ \E l \in LectureIds : \E k \in 1..Len(runs[l]) : CompleteWrite(l, k)
    \/ \E l \in LectureIds : \E k \in 1..Len(runs[l]) : IndexLecture(l, k)
    \/ \E l \in LectureIds : ApplyProgress(l)
    \/ Crash
    \/ Restart
    \/ \E l \in LectureIds : AudioLost(l)
    \/ RecoverScan
    \/ RecoverMarkFailed
    \/ RecoverMarkError
    \/ RecoverSpawn
    \/ UploadLecture
    \/ InitUpload
    \/ \E u \in LectureIds : UploadChunk(u)
    \/ \E u \in LectureIds : CompleteBegin(u)
    \/ \E u \in LectureIds : CompleteMerge(u)
    \/ \E u \in LectureIds : CompleteCleanup(u)
    \/ \E u \in LectureIds : CompleteCreate(u)
    \/ \E l \in LectureIds : DeleteLecture(l)

Spec == Init /\ [][Next]_vars

\* the transcribe calls alone
AsrSpec == Init /\ [][AsrNext]_vars

\* the VectorStore calls alone, on an empty lectures table
VsInit == Init /\ IsNone(db[LegacyId])

VsSpec == VsInit /\ [][VsNext]_vars

\* the EmbeddingService calls alone
EmbSpec == VsInit /\ [][EmbNext]_vars

\* the VectorStore calls as users of the locks
LockSpec == VsInit /\ [][LockNext]_vars

\* ... where every call that has begun keeps being run
LockFairSpec == LockSpec /\ \A t \in Tasks : WF_vars(TaskStep(t))

\* the chunk_segments calls alone
ChunkSpec == VsInit /\ [][ChunkNext]_vars

\* the upload requests alone, on an empty lectures table
UploadSpec == VsInit /\ [][UploadNext]_vars

\* the progress reports of _transcribe_sync alone
ProgressSpec == VsInit /\ [][ProgressNext]_vars

\* ============================================================== claims
Status(l) == Row(db, l).status

Terminal(st) == st \in {"completed", "failed"}

\* the tasks that have ended, normally or with an exception
Ended(r) == r.pc \in {"done", "raised"}

\* C1: a lecture whose status is completed or failed never changes status
\* again and is never given a new processing run, over every interleaving of
\* upload, processing, progress updates, crash, restart and recovery.
C1_TerminalIsFinal ==
    [][ \A l \in LectureIds :
          (Exists(db, l) /\ Terminal(Status(l)))
            => /\ Exists(db', l)
               /\ Row(db', l).status = Status(l)
               /\ Len(runs'[l]) <= Len(runs[l])
               /\ \A k \in 1..Len(runs'[l]) : runs'[l][k].pc # "start" ]_vars

\* a failed lecture that has been through a crash and a whole recovery scan
C1_Witness ==
    \E l \in LectureIds :
        /\ Exists(db, l) /\ Status(l) = "failed"
        /\ Row(db, l).error = Some(TimeoutErrorMsg)
        /\ crashes >= 1 /\ phase = "serving" /\ recovery.pc = "done"

\* C2: every task that has ended has returned normally (no exception left it)
\* and its lecture is completed or failed, with an error stored when failed.
C2_RunsEndTerminal ==
    \A l \in LectureIds : \A k \in 1..Len(runs[l]) :
        Ended(Run(l, k))
          => /\ Run(l, k).pc = "done"
             /\ Terminal(Status(l))
             /\ (Status(l) = "failed" => ~IsNone(Row(db, l).error))

\* the status and error columns of a lecture, None without a row
StatusAndError(d, l) ==
    IF Exists(d, l) THEN Some(<<Row(d, l).status, Row(d, l).error>>) ELSE None

\* C3: no lecture ever has two processing tasks in flight, and a step that
\* changes a lecture's status or error is a step of that lecture's one task,
\* the creation of the row, or the recovery scan marking a lecture that has no
\* task.
C3_OneRunOneWriter ==
    [][ \A l \in LectureIds :
          /\ Cardinality({ k \in 1..Len(runs'[l]) : ~Ended(runs'[l][k]) }) <= 1
          /\ StatusAndError(db', l) # StatusAndError(db, l)
               => \/ ~Exists(db, l)
                  \/ /\ Cardinality(Active(l)) = 1
                     /\ \E k \in Active(l) : runs'[l][k] # runs[l][k]
                  \/ /\ runs[l] = <<>>
                     /\ recovery' # recovery ]_vars

\* a second complete_upload for the same upload id is still in flight while
\* the task scheduled by the first one is running
C3_Witness ==
    \E u \in LectureIds :
        /\ InFlight(u) > 0
        /\ Active(u) # {}
        /\ Run(u, 1).pc # "start"

\* the lectures of the scan whose loop iteration is over
Handled ==
    IF recovery.pc = "done" THEN 1..Len(recovery.incomplete)
    ELSE IF recovery.pc \in {"loop", "mark", "aborted"} THEN 1..(recovery.i - 1)
    ELSE {}

\* C4: a lecture that the recovery scan found pending or processing and whose
\* audio_path is null or names no existing file is failed, its error names the
\* missing path, and it has no processing task.
C4_MissingAudioFails ==
    \A j \in Handled :
        LET l == recovery.incomplete[j]
            path == Row(db, l).audio_path
        IN  (IsNone(path) \/ ~audioFile[l])
              => /\ Status(l) = "failed"
                 /\ ~IsNone(Row(db, l).error)
                 /\ Contains(Get(Row(db, l).error), IF IsNone(path) THEN StrPath ELSE Get(path))
                 /\ runs[l] = <<>>

\* a lecture with a recorded path whose file was lost has been handled
C4_Witness ==
    /\ recovery.pc = "done"
    /\ \E j \in Handled :
          LET l == recovery.incomplete[j]
          IN  ~IsNone(Row(db, l).audio_path) /\ ~audioFile[l]

\* C5: when the scan is over, every lecture it found (but one whose own
\* handling raised) is failed without a task or has exactly one fresh task.
C5_ScanHandlesAll ==
    recovery.pc \in {"done", "aborted"}
      => \A j \in 1..Len(recovery.incomplete) :
            LET l == recovery.incomplete[j]
            IN  (recovery.pc = "aborted" => j # recovery.i)
                  => \/ Status(l) = "failed" /\ runs[l] = <<>>
                     \/ Len(runs[l]) = 1

\* the tasks that went through the asyncio.TimeoutError handler and returned
TimedOut(l, k) == Run(l, k).outcome = "timeout" /\ Run(l, k).pc = "done"

IndexFailed(l, k) == Run(l, k).pc = "raised" /\ Run(l, k).indexed

\* C8: after index_lecture has failed the lecture is still completed, with
\* has_transcript true and its transcript file in place.
C8_IndexFailureKeepsCompleted ==
    \A l \in LectureIds : \A k \in 1..Len(runs[l]) :
        IndexFailed(l, k)
          => /\ Status(l) = "completed"
             /\ Row(db, l).has_transcript
             /\ transcriptFile[l]

\* index_lecture has failed for a lecture that has no collection (search
\* finds nothing)
C8_Witness ==
    \E l \in LectureIds : \E k \in 1..Len(runs[l]) :
        IndexFailed(l, k) /\ ~collection[l]

\* C9: a completed lecture has its transcript file and has_transcript true,
\* and a task is at or past index_lecture only when its lecture is completed.
C9_TranscriptBeforeCompleted ==
    \A l \in LectureIds :
        /\ (Exists(db, l) /\ Status(l) = "completed")
             => transcriptFile[l] /\ Row(db, l).has_transcript
        /\ \A k \in 1..Len(runs[l]) :
             (Run(l, k).pc = "index" \/ Run(l, k).indexed) => Status(l) = "completed"

\* a lecture completed by the task that recovery started after a crash which
\* fell between the transcript write and the completion write
C9_Witness ==
    \E l \in LectureIds : \E k \in 1..Len(runs[l]) :
        /\ crashes >= 1
        /\ Run(l, k).pc = "index"
        /\ Status(l) = "completed"

\* C10: processing_progress is null whenever the status is not processing.
C10_ProgressOnlyWhileProcessing ==
    \A l \in LectureIds :
        (Exists(db, l) /\ Status(l) # "processing")
          => IsNone(Row(db, l).processing_progress)

\* the on_progress calls of lecture l's task whose update_progress coroutine
\* has written its value
Applied(l) ==
    { n \in 1..MaxSegments :
        /\ \E k \in 1..Len(runs[l]) : Run(l, k).total > 0 /\ n <= Run(l, k).emitted
        /\ \A e \in pending[l] : e[1] # n }

\* C11: the progress updates of one task are applied in the order they were
\* emitted: no update_progress coroutine changes the stored value after the
\* coroutine of a later on_progress call of the same task has written.
C11_ProgressInEmissionOrder ==
    [][ \A l \in LectureIds : \A e \in pending[l] \ pending'[l] :
          db'[l] # db[l] => \A n \in Applied(l) : n < e[1] ]_vars

\* the DELETE requests for l that found the row and its owner have ended
DeleteEnded(d, l) == d[l] \notin {"none", "404", "403"}

\* C14: a DELETE that ends for a lecture found and owned does not raise (the
\* reply is 200) and leaves no record, no transcript file, no audio file and
\* no vector collection of the lecture.
C14_DeleteRemovesAll ==
    [][ \A l \in LectureIds :
          (deleteReply'[l] # deleteReply[l] /\ DeleteEnded(deleteReply', l))
            => /\ deleteReply'[l] = "200"
               /\ ~Exists(db', l)
               /\ ~transcriptFile'[l]
               /\ ~audioFile'[l]
               /\ ~collection'[l] ]_vars

Decoding == { c \in Callers : calls[c].thread \in {"started", "loading", "running"} }

\* C12: at most one _transcribe_sync executes at any time, also after a
\* caller was cancelled by the timeout, and a call that waits for the lock
\* does not fail (an exception leaves transcribe only from the call's own
\* decode).
C12_OneDecodeAtATime ==
    /\ Cardinality(Decoding) <= 1
    /\ \A c \in Callers : calls[c].pc = "raised" => calls[c].thread = "finished"

\* C13: the remote worker is tried at most once per call and only after a
\* healthy probe; no exception of the remote side leaves transcribe; after a
\* failed probe or a failed remote transcription the call goes on with the
\* local path, and what it returns is the local result.
C13_RemoteFailureFallsBack ==
    \A c \in Callers :
        /\ calls[c].tries <= 1
        /\ calls[c].tries = 1 => calls[c].probe = "healthy"
        /\ calls[c].pc = "raised" => calls[c].exc = "local"
        /\ (calls[c].probe \in ProbeOutcomes \ {"healthy"} \/ calls[c].remoteError # "none")
             => /\ calls[c].pc \in {"lockwait", "decode", "returned", "raised", "cancelled"}
                /\ calls[c].pc = "returned" => calls[c].result = "local"

\* a call whose remote transcription failed has returned the local result
C13_Witness ==
    \E c \in Callers :
        /\ calls[c].remoteError # "none"
        /\ calls[c].pc = "returned"
        /\ calls[c].result = "local"

\* the collection that the calls on lecture_id use, None when there is none
CollectionOf(store, lecture_id) == store[CollectionName(lecture_id)]

\* the chunk was made by index_lecture(lecture_id, ...)
IndexedUnder(chunk, lecture_id) ==
    \E i \in 0..(MaxSegs - 1) : chunk.id = ChunkId(lecture_id, i)

C17_MissingCollectionIsEmpty ==
    [][ /\ ( /\ returned'.op \in {"search", "count", "delete"}
             /\ IsNone(CollectionOf(chroma, returned'.lecture_id)) )
          => /\ ~returned'.raised
             /\ returned'.chunks = <<>>
             /\ returned'.count = 0
             /\ ~returned'.deleted
             /\ chroma' = chroma
        /\ ( /\ returned'.op = "delete"
             /\ ~IsNone(CollectionOf(chroma, returned'.lecture_id)) )
          => /\ ~returned'.raised
             /\ returned'.deleted
             /\ IsNone(CollectionOf(chroma', returned'.lecture_id)) ]_vars

\* delete_lecture has returned false for a lecture without a collection while
\* another lecture is indexed
C17_Witness ==
    /\ returned.op = "delete"
    /\ ~returned.deleted
    /\ IsNone(CollectionOf(chroma, returned.lecture_id))
    /\ Stored(chroma) # {}

\* the entries of the collection that search(lecture_id) queries
Candidates(lecture_id) ==
    IF IsNone(CollectionOf(chroma, lecture_id)) THEN {}
    ELSE Get(CollectionOf(chroma, lecture_id))

\* the distance of the entry a returned chunk was built from
DistanceOf(chunk, lecture_id) ==
    (CHOOSE e \in Candidates(lecture_id) : e.id = chunk.id).distance

\* what search has returned, but for the value of the score field: at most
\* top_k chunks of distinct entries of the collection, each with
\* 1 - distance/2 >= min_score, none of the top_k nearest with such a score
\* left out, highest score first
SearchShape ==
    LET chunks == returned.chunks
        entries == Candidates(returned.lecture_id)
        good == { e \in entries : Score(e.distance) >= returned.min_score }
        n == Cardinality(good)
    IN  /\ Len(chunks) <= returned.top_k
        /\ \A i \in 1..Len(chunks) : \E e \in good : e.id = chunks[i].id
        /\ \A i, j \in 1..Len(chunks) : i # j => chunks[i].id # chunks[j].id
        /\ Len(chunks) = IF returned.top_k < n THEN returned.top_k ELSE n
        /\ \A i \in 1..Len(chunks) : \A e \in entries :
               (\A j \in 1..Len(chunks) : chunks[j].id # e.id)
                 => DistanceOf(chunks[i], returned.lecture_id) <= e.distance
        /\ \A i, j \in 1..Len(chunks) : i < j => chunks[i].score >= chunks[j].score

\* C18 as claimed: search returns at most top_k chunks, every chunk's score
\* equals 1 - distance/2 and is at least min_score, no candidate of the top_k
\* with such a score is dropped and the list is ordered by score descending.
C18_SearchAsClaimed ==
    returned.op = "search"
      => /\ SearchShape
         /\ \A i \in 1..Len(returned.chunks) :
               /\ returned.chunks[i].score
                    = Score(DistanceOf(returned.chunks[i], returned.lecture_id))
               /\ returned.chunks[i].score >= returned.min_score

\* C18 as amended: the same, with the score of a returned chunk being
\* 1 - distance/2 rounded to three decimals; the test against min_score is made
\* on the value before rounding.
C18_SearchFilters ==
    returned.op = "search"
      => /\ SearchShape
         /\ \A i \in 1..Len(returned.chunks) :
               /\ returned.chunks[i].score
                    = Round3(Score(DistanceOf(returned.chunks[i], returned.lecture_id)))
               /\ Score(DistanceOf(returned.chunks[i], returned.lecture_id))
                    >= returned.min_score

\* search with top_k = 1 on a collection of three entries, two of which have a
\* score of at least min_score, has returned the nearest one
C18_Witness ==
    /\ returned.op = "search"
    /\ returned.top_k = 1
    /\ Len(returned.chunks) = 1
    /\ Cardinality(Candidates(returned.lecture_id)) = 3
    /\ \E e \in Candidates(returned.lecture_id) :
          /\ e.id # returned.chunks[1].id
          /\ Score(e.distance) >= returned.min_score
    /\ \E e \in Candidates(returned.lecture_id) : Score(e.distance) < returned.min_score

\* the lecture's collection holds a chunk with score >= min_score
HasQualifying(lecture_id) ==
    \E e \in Candidates(lecture_id) : Score(e.distance) >= returned.min_score

\* C19: search_all_lectures returns one entry for every lecture id of its input
\* whose collection holds a chunk with score >= min_score, in input order, and
\* none for the others; every entry has between 1 and top_k_per_lecture chunks;
\* an empty id list or a blank query gives the empty result.
C19_SearchAllEntries ==
    returned.op = "search_all"
      => LET expected == SelectSeq(returned.lecture_ids, HasQualifying)
             found == returned.found
         IN  IF returned.lecture_ids = <<>> \/ returned.blank
               THEN found = <<>>
               ELSE /\ Len(found) = Len(expected)
                    /\ \A i \in 1..Len(found) :
                          /\ found[i].lecture_id = expected[i]
                          /\ found[i].chunks # <<>>
                          /\ Len(found[i].chunks) <= returned.top_k

\* of two lectures probed the first one has no qualifying chunk and is left
\* out, the second one has an entry
C19_Witness ==
    /\ returned.op = "search_all"
    /\ Len(returned.lecture_ids) = 2
    /\ Candidates(returned.lecture_ids[1]) # {}
    /\ ~HasQualifying(returned.lecture_ids[1])
    /\ Len(returned.found) = 1
    /\ returned.found[1].lecture_id = returned.lecture_ids[2]

\* every segment's stripped text is empty (the empty list included)
AllBlank(segments) == \A i \in 1..Len(segments) : segments[i].text.words = 0

\* C20: index_lecture on segments that give no chunks returns 0 and leaves the
\* collections as they are; otherwise, when it returns, it returns the number
\* of chunks, and on a lecture that had no collection the collection then
\* holds that many entries, with the ids lecture_id_chunk_0 ..
\* lecture_id_chunk_(n-1).
C20_IndexCount ==
    [][ (returned'.op = "index" /\ ~returned'.raised)
          => LET id == returned'.lecture_id
                 n == returned'.count
             IN  IF AllBlank(returned'.segments)
                   THEN n = 0 /\ chroma' = chroma
                   ELSE /\ n = Len(ChunkSegments(returned'.segments))
                        /\ n >= 1
                        /\ IsNone(CollectionOf(chroma, id))
                             => /\ ~IsNone(CollectionOf(chroma', id))
                                /\ Cardinality(Get(CollectionOf(chroma', id))) = n
                                /\ { e.id : e \in Get(CollectionOf(chroma', id)) }
                                     = { ChunkId(id, i) : i \in 0..(n - 1) } ]_vars

\* index_lecture has returned 2 for a lecture whose collection holds the two
\* chunks and nothing else
C20_Witness ==
    /\ returned.op = "index"
    /\ returned.count = 2
    /\ Cardinality(Candidates(returned.lecture_id)) = 2
    /\ \A e \in Candidates(returned.lecture_id) : e.lecture_id = returned.lecture_id

\* the indices of a chunk, as a set
Members(chunk) == { chunk.segment_indices[j] : j \in 1..Len(chunk.segment_indices) }

\* the segment's trimmed text is not empty
HasText(segment) == segment.text.words > 0

\* the segments with text
WithText(segments) == { i \in 1..Len(segments) : HasText(segments[i]) }

\* C22: chunk_segments covers exactly the segments whose trimmed text is not
\* empty: each of them is in at least one chunk, no other segment is in any
\* chunk, the indices of a chunk are strictly increasing, the last chunk holds
\* the last segment with text (the final, partial chunk is emitted), and a
\* chunk's start_time / end_time are the start of its first and the end of its
\* last segment.
C22_ChunksCoverSegments ==
    returned.op = "chunk"
      => LET segments == returned.segments
             chunks == returned.chunks
         IN  /\ UNION { Members(chunks[k]) : k \in 1..Len(chunks) } = WithText(segments)
             /\ \A k \in 1..Len(chunks) :
                   LET idx == chunks[k].segment_indices
                   IN  /\ idx # <<>>
                       /\ \A i, j \in 1..Len(idx) : i < j => idx[i] < idx[j]
                       /\ chunks[k].start_time = segments[idx[1]].start
                       /\ chunks[k].end_time = segments[idx[Len(idx)]].end
             /\ WithText(segments) # {}
                  => /\ chunks # <<>>
                     /\ \A i \in WithText(segments) :
                           i <= chunks[Len(chunks)].segment_indices[
                                    Len(chunks[Len(chunks)].segment_indices)]

\* a list with a blank segment gave two chunks, the last of them of several
\* segments and under chunk_size
C22_Witness ==
    /\ returned.op = "chunk"
    /\ \E i \in 1..Len(returned.segments) : ~HasText(returned.segments[i])
    /\ Len(returned.chunks) = 2
    /\ Len(returned.chunks[2].segment_indices) = 2
    /\ returned.chunks[2].text.words < chunk_size

\* C23: every chunk of chunk_segments has at most chunk_size words, unless it
\* holds a segment that has more than chunk_size words by itself; a chunk that
\* starts with overlap segments and goes on with segments within chunk_size
\* stays within chunk_size.
C23_ChunkWithinSize ==
    returned.op = "chunk"
      => \A k \in 1..Len(returned.chunks) :
            \/ returned.chunks[k].text.words <= chunk_size
            \/ \E i \in Members(returned.chunks[k]) :
                  returned.segments[i].text.words > chunk_size

RECURSIVE WordsOfLast(_, _, _)
\* the words of the last m segments of the index list idx
WordsOfLast(idx, segments, m) ==
    IF m = 0 THEN 0
    ELSE segments[idx[Len(idx)]].text.words
           + WordsOfLast(SubSeq(idx, 1, Len(idx) - 1), segments, m - 1)

\* the length of the longest suffix of idx with at most chunk_overlap words
LongestSuffix(idx, segments) ==
    CHOOSE m \in 0..Len(idx) :
        /\ WordsOfLast(idx, segments, m) <= chunk_overlap
        /\ \A n \in 0..Len(idx) : WordsOfLast(idx, segments, n) <= chunk_overlap => n <= m

\* C24: of two consecutive chunks the second begins with the longest suffix of
\* the first whose words are within chunk_overlap, in the original order,
\* followed by the segment that triggered the split (the next segment with
\* text after the first chunk's last); the two chunks share these overlap
\* segments and no other.
C24_OverlapLaw ==
    returned.op = "chunk"
      => \A k \in 1..(Len(returned.chunks) - 1) :
            LET a == returned.chunks[k].segment_indices
                b == returned.chunks[k + 1].segment_indices
                m == LongestSuffix(a, returned.segments)
            IN  /\ Len(b) > m
                /\ SubSeq(b, 1, m) = SubSeq(a, Len(a) - m + 1, Len(a))
                /\ b[m + 1] > a[Len(a)]
                /\ \A i \in WithText(returned.segments) : ~(a[Len(a)] < i /\ i < b[m + 1])
                /\ Members(returned.chunks[k]) \cap Members(returned.chunks[k + 1])
                     = { b[j] : j \in 1..m }

\* a chunk of three segments was finalized and only its last segment went into
\* the next chunk, the one before it not fitting in chunk_overlap
C24_Witness ==
    /\ returned.op = "chunk"
    /\ Len(returned.chunks) = 2
    /\ Len(returned.chunks[1].segment_indices) = 3
    /\ LongestSuffix(returned.chunks[1].segment_indices, returned.segments) = 1
    /\ returned.chunks[2].segment_indices = <<3, 4>>

\* C29: within one local run every value given to the progress callback is in
\* [0, 1] and the values are non-decreasing, whatever segments the engine
\* emits; there is one value per segment, and none when total_duration is
\* absent or 0.
C29_ProgressMonotone ==
    returned.op = "transcribe_sync"
      => LET p == returned.progress
         IN  /\ \A i \in 1..Len(p) : 0 <= p[i] /\ p[i] <= 1000
             /\ \A i \in 1..(Len(p) - 1) : p[i] <= p[i + 1]
             /\ Len(p) = IF IsNone(returned.total_duration)
                            \/ returned.total_duration = Some(0)
                           THEN 0 ELSE Len(returned.segments)

\* C21: index_lecture upserts by id: when it has returned n, the collection
\* holds under each id lecture_id_chunk_i, i < n, the chunk i of this call
\* (told by its embedding's distance to the query), also when the id was there
\* before, so that a later search reads the new content.
C21_ReindexOverwrites ==
    [][ (returned'.op = "index" /\ ~returned'.raised)
          => \A i \in 1..returned'.count :
                \E e \in Get(CollectionOf(chroma', returned'.lecture_id)) :
                    /\ e.id = ChunkId(returned'.lecture_id, i - 1)
                    /\ e.distance = returned'.distances[i] ]_vars

\* the step creates the row of lecture l
Created(l) == ~Exists(db, l) /\ Exists(db', l)

\* the step is the end of a rejected upload request: one that replies 400 or
\* 404, or complete_upload finding no chunks (it removes the empty directory)
Rejecting ==
    \/ returned' # returned
    \/ \E u \in LectureIds : uploadDir[u] = "empty" /\ uploadDir'[u] = "none"

\* C27: a successful upload (single-shot or chunked) creates one lecture row,
\* with status pending, and schedules one processing task for that lecture,
\* which has not started when the request responds; nothing else schedules a
\* task; a rejected upload (extension not allowed, unknown
\* upload session, no chunks) creates no row and schedules no task.
C27_UploadCreatesOneRun ==
    [][ /\ \A l \in LectureIds :
              /\ Created(l)
                   => /\ Row(db', l).status = "pending"
                      /\ Len(runs'[l]) = Len(runs[l]) + 1
                      /\ runs'[l][Len(runs'[l])].pc = "start"
                      /\ \A o \in LectureIds \ {l} : db'[o] = db[o] /\ runs'[o] = runs[o]
              /\ Len(runs'[l]) # Len(runs[l]) => Created(l)
        /\ Rejecting => db' = db /\ runs' = runs ]_vars

\* a chunked upload has been completed, its lecture is pending with its one
\* task not started, and a further complete_upload for the same upload id has
\* been rejected as an unknown session
C27_Witness ==
    \E u \in LectureIds :
        /\ Exists(db, u)
        /\ Row(db, u).status = "pending"
        /\ Len(runs[u]) = 1
        /\ InFlight(u) = 0
        /\ returned.op = "complete_upload"
        /\ returned.count = u
        /\ returned.status_code = 404

\* a failure handler has written the status and not yet the error
MidFailure ==
    \/ \E l \in LectureIds : \E k \in 1..Len(runs[l]) : Run(l, k).pc = "failing2"
    \/ recovery.pc = "mark"

\* C28: whenever the process serves requests and no failure handler is between
\* its two writes, also after a crash between them and the restart that
\* follows, a lecture is failed exactly when its error is not null.
C28_FailedIffError ==
    (phase = "serving" /\ ~MidFailure)
      => \A l \in LectureIds :
            Exists(db, l) => (Status(l) = "failed" <=> ~IsNone(Row(db, l).error))


\* C25: embed_documents returns one vector per document, the j-th being the
\* embedding of the j-th document, for every batch size and length, also when
\* other embed_documents / embed_query calls run between its batches.
C25_EmbedDocumentsAligned ==
    \A t \in Tasks :
        (tasks[t].op = "embed_documents" /\ tasks[t].pc = "done")
          => /\ Len(tasks[t].out) = Len(tasks[t].docs)
             /\ \A j \in 1..Len(tasks[t].docs) :
                    tasks[t].out[j] = Embedding(tasks[t].docs[j])

\* an embed_documents call of three documents, one of them empty, in batches
\* of two has returned while another call is between two of its batches
C25_Witness ==
    \E t \in Tasks : \E u \in Tasks \ {t} :
        /\ tasks[t].op = "embed_documents"
        /\ tasks[t].pc = "done"
        /\ Len(tasks[t].docs) = 3
        /\ tasks[t].bs = 2
        /\ \E j \in 1..3 : tasks[t].docs[j] = 0
        /\ tasks[u].op = "embed_documents"
        /\ tasks[u].i > 0
        /\ tasks[u].i < Len(tasks[u].docs)

\* C26: no second WhisperModel and no second SentenceTransformer is built in
\* one process, whatever the interleaving of the first uses.
C26_ModelsBuiltOnce ==
    /\ whisper.instances <= 1
    /\ embModel.instances <= 1


\* C30: every index_lecture, search, search_all_lectures, delete_lecture and
\* get_lecture_chunk_count call that has begun acquires its locks and
\* completes, whatever the other calls do.
C30_EveryCallCompletes ==
    \A t \in Tasks : (tasks[t].pc # "idle") ~> (tasks[t].pc = "done")

\* an index_lecture or search call holds the index lock and waits for the
\* embedding lock, which a search_all_lectures call holds
C30_Witness ==
    \E t \in Tasks : \E u \in Tasks \ {t} :
        /\ tasks[t].op \in {"index_lecture", "search"}
        /\ vsLock.holder = Some(t)
        /\ tasks[t].pc = "emb_wait"
        /\ tasks[u].op = "search_all_lectures"
        /\ embLock.holder = Some(u)

====
